---- MODULE Spec2Model ----
(***************************************************************************)
(* accountlib: the HTTP request dispatcher (httprequest.RequestHandler)    *)
(* with its retry loop, modelled as a state machine.                       *)
(*                                                                         *)
(* One RequestHandler is shared by the callers of Callers.  A call of      *)
(* MakeRequest is the action MakeRequest (lines 77-84 with prepareRequest  *)
(* and the first test of the loop condition) followed by one Attempt per   *)
(* iteration of the retry loop and by Return, which hands the results to   *)
(* the caller.  The network is the environment: each attempt draws what    *)
(* http.Client.Do and the read of the body produce.                        *)
(* Durations are in seconds (timeouts) and milliseconds (backoff).         *)
(***************************************************************************)
EXTENDS Integers, Sequences, FiniteSets, TLC

\* ------------------------------------------------------------- constants

defaultRetryCount == 3

defaultTimeout == 5

baseBackOff == 100

defaultRetryStatusCodes == <<408, 504, 503>>

StatusRequestTimeout == 408

MethodPost == "POST"

defaultRequestType == "application/json"

\* ---------------------------------------------------------------- bounds

\* largest RetryCount a caller passes
MaxRetry == 3

\* ---------------------------------------------------------------- values

Nil == "nil"

ErrCreate == "unable to create http request"

ErrTimeout == "timeout encountered"

ErrSend == "failed to send request"

NoBytes == <<>>

NoHeaders == {}

Callers == {"a", "b"}

\* method tokens net/http accepts, and one it rejects
TokenMethods == {"GET", "POST", "PUT", "DELETE"}

Methods == TokenMethods \cup {"*?"}

GoodURL == "http://localhost:8080/v1/organisation/accounts/ad27"

BadURL == "http://local host:8080/%zz"

URLs == {GoodURL, BadURL}

Payloads == {NoBytes, <<1, 2>>}

Timeouts == {0, 2}

RetryCounts == (-1) .. MaxRetry

RequestSpecifications ==
  [URL : URLs, HTTPMethod : Methods, Params : Payloads,
   Timeout : Timeouts, RetryCount : RetryCounts]

\* the specifications and outcomes of the concurrent runs
ConcSpecifications ==
  [URL : {GoodURL}, HTTPMethod : {"GET", "*?"}, Params : {NoBytes},
   Timeout : {0, 2, 7}, RetryCount : {1, 2}]

NoSpecs == [URL |-> "", HTTPMethod |-> "", Params |-> NoBytes, Timeout |-> 0, RetryCount |-> 0]

NoRequest == [Method |-> "", URL |-> "", ContentType |-> Nil, Body |-> NoBytes]

NoResult == [statusCode |-> 0, body |-> NoBytes, headers |-> NoHeaders, err |-> Nil]

H1 == {<<"Content-Type", "application/json">>}

H2 == {<<"Content-Type", "text/plain">>, <<"Retry-After", "1">>}

\* what the server answers
Responses ==
  { [status |-> 200, body |-> <<7, 8>>, headers |-> H1],
    [status |-> 409, body |-> <<9>>, headers |-> H1],
    [status |-> 502, body |-> NoBytes, headers |-> H2],
    [status |-> 408, body |-> <<4>>, headers |-> H2],
    [status |-> 503, body |-> <<5>>, headers |-> H2],
    [status |-> 504, body |-> NoBytes, headers |-> H1] }

\* what newHandler.Do and the read of the body produce on one attempt:
\* a response read in full, a response whose body cannot be read, a timeout,
\* any other transport failure
Outcomes ==
  { [kind |-> "response", status |-> r.status, body |-> r.body, headers |-> r.headers] : r \in Responses }
  \cup { [kind |-> "readfail", status |-> s, body |-> NoBytes, headers |-> H1] : s \in {200, 503} }
  \cup { [kind |-> k, status |-> 0, body |-> NoBytes, headers |-> NoHeaders] : k \in {"timeout", "neterr"} }

ConcOutcomes ==
  { o \in Outcomes : \/ o.kind = "neterr"
                     \/ o.kind = "response" /\ o.status \in {200, 503} }

CustomClients == { [Timeout |-> 10, Transport |-> "custom"], [Timeout |-> 10, Transport |-> Nil] }

NilClient == [Timeout |-> 0, Transport |-> Nil]

\* ---------------------------------------------- the resource client: values

StatusOK == 200

StatusCreated == 201

StatusNoContent == 204

\* largest status code handed to the client and to the classifier
MaxStatus == 511

StatusCodes == 0 .. MaxStatus

MethodGet == "GET"

MethodDelete == "DELETE"

accountBaseURL == "http://localhost:8080"

accountPath == "v1/organisation/accounts"

\* an error value: its message and the text formatted after it; NilError is nil
Errorf(msg, text) == [msg |-> msg, text |-> text]

NilError == Errorf("nil", "")

\* a nil []byte; every other body is written as its text
NilBody == "<nil>"

DocAccount == "{\"data\": {\"id\":\"7eb3\"}}"

DocTruncated == "{\"data\": {\"id\":\"cca3\"}"

DocNull == "{\"data\": null}"

DocNoData == "{}"

Bodies == {NilBody, "", DocAccount, DocTruncated, DocNull, DocNoData}

\* *AccountData: nil, or the account decoded
NoAccount == [nil |-> TRUE, ID |-> ""]

AccountData(id) == [nil |-> FALSE, ID |-> id]

AccountIDs == {"", "7eb3"}

\* *int64: nil, or a version
NilVersion == [nil |-> TRUE, v |-> 0]

Versions == {NilVersion, [nil |-> FALSE, v |-> 0], [nil |-> FALSE, v |-> 3]}

AccountCreateParams == {[ID |-> ""], [ID |-> "7eb3"]}

\* *ClientOptions: nil, options without a client, options with one
NilOptions == [nil |-> TRUE, HTTPClient |-> NilClient]

ClientOptions ==
  {NilOptions} \cup { [nil |-> FALSE, HTTPClient |-> h] : h \in CustomClients \cup {NilClient} }

\* what a RequestHandlerIface may return to the client (the headers are dropped)
HandlerErrors ==
  {NilError, Errorf(ErrCreate, "invalid method"), Errorf(ErrSend, "connection refused"),
   Errorf(ErrTimeout, "deadline exceeded")}

HandlerResults == [statusCode : StatusCodes, body : Bodies, err : HandlerErrors]

NoHandlerResult == [statusCode |-> 0, body |-> NilBody, err |-> NilError]

NoClientSpecs == [URL |-> <<>>, HTTPMethod |-> "", Params |-> NilBody, Timeout |-> 0, RetryCount |-> 0]

NoCall ==
  [op |-> "none", accountID |-> "", version |-> NilVersion, params |-> [ID |-> ""],
   options |-> NilOptions, statusCode |-> 0, response |-> NilBody,
   called |-> FALSE, specs |-> NoClientSpecs, result |-> NoHandlerResult,
   accountData |-> NoAccount, err |-> NilError,
   classified |-> FALSE, sendErr |-> Nil, retry |-> FALSE, decide |-> FALSE]

NoClient == [state |-> "none", handler |-> NilClient]

\* ------------------------------------------------------------------ state

VARIABLES
  HTTPClient,       \* r.HTTPClient, the client every call of the handler shares
  configured,       \* history: the client as NewRequestHandler left it
  pc,               \* where each caller's MakeRequest is
  given,            \* history: the specification as the caller passed it
  specs,            \* the caller's RequestSpecifications (MakeRequest holds a pointer)
  req,              \* newRequest
  requestCount,
  baseBackOffTime,
  ret,              \* the named results statusCode, body, headers, err
  sent,             \* history: the attempts sent, each with the timeout in force
  slept,            \* history: the backoff sleeps, in milliseconds
  entry,            \* history: the client as the call found it
  accountClient,    \* the accountlib.Client of NewClient: its handler's HTTP client
  call              \* the library call in hand: its arguments and what it returned

dispatcherVars == <<HTTPClient, configured, pc, given, specs, req, requestCount,
                    baseBackOffTime, ret, sent, slept, entry>>

clientVars == <<accountClient, call>>

vars == <<dispatcherVars, clientVars>>

\* -------------------------------------------------------------- functions

\* a slip: the default timeout is set on the caller's client too
NewRequestHandlerSetsTimeout(customClient) ==
  IF customClient # NilClient
    THEN [customClient EXCEPT !.Timeout = defaultTimeout]
    ELSE [Timeout |-> defaultTimeout, Transport |-> "defaultTransport"]

NewRequestHandler(customClient) ==
  IF customClient # NilClient
    THEN customClient
    ELSE [Timeout |-> defaultTimeout, Transport |-> "defaultTransport"]

\* http.NewRequest succeeds
NewRequestOK(method, url) == method \in TokenMethods /\ url = GoodURL

prepareRequestBody(params) == params

\* lines 110-113: check and set retry count
SetRetryCount(s) ==
  IF s.RetryCount = 0 THEN [s EXCEPT !.RetryCount = defaultRetryCount] ELSE s

\* a slip: the timeout is set without the test for 0
SetTimeoutAlways(client, s) == [client EXCEPT !.Timeout = s.Timeout]

\* lines 114-117: check and set request timeout
SetTimeout(client, s) ==
  IF s.Timeout # 0 THEN [client EXCEPT !.Timeout = s.Timeout] ELSE client

\* a slip: an empty body is taken for no body
BuildRequestNonEmptyOnly(s) ==
  LET r0 == [Method |-> s.HTTPMethod, URL |-> s.URL, ContentType |-> Nil, Body |-> NoBytes]
  IN IF s.HTTPMethod = MethodPost /\ s.Params # NoBytes
       THEN [r0 EXCEPT !.ContentType = defaultRequestType,
                       !.Body = prepareRequestBody(s.Params)]
       ELSE r0

\* lines 105 and 118-124: the request, with the header and the body of a POST
BuildRequest(s) ==
  LET r0 == [Method |-> s.HTTPMethod, URL |-> s.URL, ContentType |-> Nil, Body |-> NoBytes]
  IN IF s.HTTPMethod = MethodPost
       THEN [r0 EXCEPT !.ContentType = defaultRequestType,
                       !.Body = prepareRequestBody(s.Params)]
       ELSE r0

\* a slip: the defaults are set before the request is known to be buildable
prepareRequestDefaultsFirst(client, s) ==
  IF ~NewRequestOK(s.HTTPMethod, s.URL)
    THEN [client |-> SetTimeout(client, s), req |-> NoRequest, err |-> ErrCreate,
          specs |-> SetRetryCount(s)]
    ELSE [client |-> SetTimeout(client, s), req |-> BuildRequest(s), err |-> Nil,
          specs |-> SetRetryCount(s)]

\* the client, the request, the error and the specification prepareRequest leaves
prepareRequest(client, s) ==
  IF ~NewRequestOK(s.HTTPMethod, s.URL)
    THEN [client |-> client, req |-> NoRequest, err |-> ErrCreate, specs |-> s]
    ELSE [client |-> SetTimeout(client, s), req |-> BuildRequest(s), err |-> Nil,
          specs |-> SetRetryCount(s)]

\* a slip: retryFlag = ... where retryFlag = retryFlag || ... was meant, so
\* that only the last code of the list counts
checkRetryRequiredLastOnly(statusCode) ==
  defaultRetryStatusCodes[Len(defaultRetryStatusCodes)] = statusCode

\* a slip: StatusConflict where StatusRequestTimeout was meant
checkRetryRequiredWrongCode(statusCode) ==
  \E i \in DOMAIN defaultRetryStatusCodes :
    (IF i = 1 THEN 409 ELSE defaultRetryStatusCodes[i]) = statusCode

checkRetryRequired(statusCode) ==
  \E i \in DOMAIN defaultRetryStatusCodes : defaultRetryStatusCodes[i] = statusCode

\* os.IsTimeout(err) on the error of Do
IsTimeout(do) == do.kind = "timeout"

\* a slip: the timeout of line 149 is not told apart
SendErrorNoTimeoutCase(do) ==
  [statusCode |-> 0, body |-> NoBytes, headers |-> NoHeaders,
   err |-> ErrSend, panics |-> FALSE]

\* lines 148-155: Do returned an error
SendError(do) ==
  IF IsTimeout(do)
    THEN [statusCode |-> StatusRequestTimeout, body |-> NoBytes, headers |-> NoHeaders,
          err |-> ErrTimeout, panics |-> FALSE]
    ELSE [statusCode |-> 0, body |-> NoBytes, headers |-> NoHeaders,
          err |-> ErrSend, panics |-> FALSE]

\* sendRequest on what Do and the read of the body produced.  At line 162
\* err is nil (line 148 has passed), so err.Error() is a nil dereference:
\* the read failure panics and nothing is returned
sendRequest(do) ==
  CASE do.kind \in {"timeout", "neterr"} -> SendError(do)
    [] do.kind = "readfail" ->
         [statusCode |-> 0, body |-> NoBytes, headers |-> NoHeaders,
          err |-> Nil, panics |-> TRUE]
    [] OTHER ->
         [statusCode |-> do.status, body |-> do.body, headers |-> do.headers,
          err |-> Nil, panics |-> FALSE]

\* a slip: an error is kept until another error replaces it
AssignResultsKeepsError(old, new) ==
  [statusCode |-> new.statusCode, body |-> new.body, headers |-> new.headers,
   err |-> IF new.err = Nil THEN old.err ELSE new.err]

\* the assignment of line 89 to the named results
AssignResults(old, new) ==
  [statusCode |-> new.statusCode, body |-> new.body, headers |-> new.headers, err |-> new.err]

\* a slip: err == nil where err != nil was meant
RetryRequiredOnSuccess(statusCode, err) == checkRetryRequired(statusCode) \/ err = Nil

\* the condition of line 90
RetryRequired(statusCode, err) == checkRetryRequired(statusCode) \/ err # Nil

\* a slip: the base is added where the backoff was to double
NextBackOffLinear(backOff) == backOff + baseBackOff

\* line 92: baseBackOffTime = 2 * baseBackOffTime
NextBackOff(backOff) == 2 * backOff

\* a slip: < where <= was meant
LoopConditionStrict(count, retryCount) == count < retryCount

\* the loop condition of line 87
LoopCondition(count, retryCount) == count <= retryCount

\* an unrecovered panic ends the process
Crashed == \E c \in Callers : pc[c] = "panic"

\* ------------------------------------------ the resource client: functions

ErrorMap ==
  400 :> "bad request" @@ 401 :> "unauthorized" @@ 403 :> "forbidden"
  @@ 404 :> "resource not found" @@ 405 :> "incorrect http method"
  @@ 406 :> "incorrect content type" @@ 409 :> "request conflict"
  @@ 429 :> "too many requests" @@ 500 :> "internal server error"
  @@ 502 :> "bad gateway" @@ 503 :> "service unavailable" @@ 504 :> "gateway timeout"

\* string(response): a nil slice is the empty text
String(response) == IF response = NilBody THEN "" ELSE response

\* a slip: the else branch is missing, an unknown code gives no error
HandleErrorStatusCodeNoFallback(statusCode, response) ==
  IF statusCode \in DOMAIN ErrorMap
    THEN Errorf(ErrorMap[statusCode], String(response))
    ELSE NilError

HandleErrorStatusCode(statusCode, response) ==
  IF statusCode \in DOMAIN ErrorMap
    THEN Errorf(ErrorMap[statusCode], String(response))
    ELSE Errorf("internal error", String(response))

\* json.Unmarshal(response, &dataResponse), dataResponse a map[string]AccountData:
\* the error, whether the key "data" is there, and the account under it
Unmarshal(response) ==
  CASE response = DocAccount -> [err |-> NilError, ok |-> TRUE, data |-> AccountData("7eb3")]
    [] response = DocNull -> [err |-> NilError, ok |-> TRUE, data |-> AccountData("")]
    [] response = DocNoData -> [err |-> NilError, ok |-> FALSE, data |-> NoAccount]
    [] OTHER -> [err |-> Errorf("unexpected end of JSON input", ""), ok |-> FALSE, data |-> NoAccount]

\* json.Marshal(dataMap) of the create params under "data" (omitempty)
Marshal(createParams) ==
  IF createParams.ID = ""
    THEN [bytes |-> "{\"data\":{}}", err |-> NilError]
    ELSE [bytes |-> "{\"data\":{\"id\":\"7eb3\"}}", err |-> NilError]

\* a slip: the error of Unmarshal is dropped
DecodeDropsError(message, response) ==
  LET u == Unmarshal(response)
  IN IF u.err = NilError /\ u.ok
       THEN [accountData |-> u.data, err |-> NilError]
       ELSE [accountData |-> NoAccount, err |-> NilError]

\* lines 130-138 of Fetch and 173-181 of Create: decode the envelope
Decode(message, response) ==
  LET u == Unmarshal(response)
  IN IF u.err # NilError
       THEN [accountData |-> NoAccount, err |-> Errorf(message, u.err.msg)]
       ELSE IF u.ok
         THEN [accountData |-> u.data, err |-> NilError]
         ELSE [accountData |-> NoAccount, err |-> NilError]

\* a slip: any status of the same class is taken for the expected one
StatusIsSameClass(statusCode, expected) == statusCode \div 100 = expected \div 100

\* lines 129, 172, 215: statusCode == http.StatusXxx
StatusIs(statusCode, expected) == statusCode = expected

\* a slip: the account id is not validated
ValidAccountIDAny(accountID) == TRUE

\* lines 110 and 192: accountID is not ""
ValidAccountID(accountID) == accountID # ""

\* a slip: only an error that comes without a status ends the call
HandlerFailedNoStatus(r) == r.err # NilError /\ r.statusCode = 0

\* lines 124, 167, 210: if err != nil { return }
HandlerFailed(r) == r.err # NilError

\* what a call returns without reaching the handler
Refused(err) ==
  [called |-> FALSE, classified |-> FALSE, specs |-> NoClientSpecs,
   accountData |-> NoAccount, err |-> err]

\* what a call returns after the handler: classified tells whether
\* HandleErrorStatusCode was called
Replied(s, classified, accountData, err) ==
  [called |-> TRUE, classified |-> classified, specs |-> s,
   accountData |-> accountData, err |-> err]

\* Fetch, with r what client.handler.MakeRequest returns when it is called
Fetch(accountID, r) ==
  IF ~ValidAccountID(accountID)
    THEN Refused(Errorf("invalid account id", ""))
    ELSE
      LET s == [URL |-> <<accountBaseURL, accountPath, accountID>>, HTTPMethod |-> MethodGet,
                Params |-> NilBody, Timeout |-> 0, RetryCount |-> 0]
          d == Decode("received invalid response", r.body)
      IN IF HandlerFailed(r)
           THEN Replied(s, FALSE, NoAccount, r.err)
           ELSE IF StatusIs(r.statusCode, StatusOK)
             THEN Replied(s, FALSE, d.accountData, d.err)
             ELSE Replied(s, TRUE, NoAccount, HandleErrorStatusCode(r.statusCode, r.body))

Create(createParams, r) ==
  LET m == Marshal(createParams)
      s == [URL |-> <<accountBaseURL, accountPath>>, HTTPMethod |-> MethodPost,
            Params |-> m.bytes, Timeout |-> 0, RetryCount |-> 0]
      d == Decode("resource created, but received invalid response", r.body)
  IN IF m.err # NilError
       THEN Refused(Errorf("unable to marshal create params", m.err.msg))
       ELSE IF HandlerFailed(r)
         THEN Replied(s, FALSE, NoAccount, r.err)
         ELSE IF StatusIs(r.statusCode, StatusCreated)
           THEN Replied(s, FALSE, d.accountData, d.err)
           ELSE Replied(s, TRUE, NoAccount, HandleErrorStatusCode(r.statusCode, r.body))

Delete(accountID, version, r) ==
  IF ~ValidAccountID(accountID)
    THEN Refused(Errorf("invalid account id", ""))
    ELSE IF version.nil
      THEN Refused(Errorf("invalid version", ""))
      ELSE
        LET s == [URL |-> <<accountBaseURL, accountPath, accountID, "?version=", version.v>>,
                  HTTPMethod |-> MethodDelete, Params |-> NilBody,
                  Timeout |-> 0, RetryCount |-> 0]
        IN IF HandlerFailed(r)
             THEN Replied(s, FALSE, NoAccount, r.err)
             ELSE IF ~StatusIs(r.statusCode, StatusNoContent)
               THEN Replied(s, TRUE, NoAccount, HandleErrorStatusCode(r.statusCode, r.body))
               ELSE Replied(s, FALSE, NoAccount, NilError)

\* NewClient: options.HTTPClient on nil options is a nil dereference
NewClient(options) ==
  IF options.nil
    THEN [state |-> "panic", handler |-> NilClient]
    ELSE [state |-> "ready", handler |-> NewRequestHandler(options.HTTPClient)]

\* ---------------------------------------------------------------- actions

Init ==
  /\ \E customClient \in CustomClients \cup {NilClient} :
       /\ HTTPClient = NewRequestHandler(customClient)
       /\ configured = NewRequestHandler(customClient)
  /\ pc = [c \in Callers |-> "idle"]
  /\ given = [c \in Callers |-> NoSpecs]
  /\ specs = [c \in Callers |-> NoSpecs]
  /\ req = [c \in Callers |-> NoRequest]
  /\ requestCount = [c \in Callers |-> 1]
  /\ baseBackOffTime = [c \in Callers |-> baseBackOff]
  /\ ret = [c \in Callers |-> NoResult]
  /\ sent = [c \in Callers |-> <<>>]
  /\ slept = [c \in Callers |-> <<>>]
  /\ entry = [c \in Callers |-> NilClient]
  /\ accountClient = NoClient
  /\ call = NoCall

\* lines 76-87: entry, prepareRequest, the return on its error, the first
\* test of the loop condition
MakeRequest(c, S) ==
  /\ ~Crashed
  /\ pc[c] = "idle"
  /\ \E s \in S :
       LET p == prepareRequest(HTTPClient, s) IN
         /\ given' = [given EXCEPT ![c] = s]
         /\ specs' = [specs EXCEPT ![c] = p.specs]
         /\ HTTPClient' = p.client
         /\ req' = [req EXCEPT ![c] = p.req]
         /\ ret' = [ret EXCEPT ![c] = [NoResult EXCEPT !.err = p.err]]
         /\ pc' = [pc EXCEPT ![c] =
                     IF p.err = Nil /\ LoopCondition(1, p.specs.RetryCount)
                       THEN "loop" ELSE "done"]
  /\ requestCount' = [requestCount EXCEPT ![c] = 1]
  /\ baseBackOffTime' = [baseBackOffTime EXCEPT ![c] = baseBackOff]
  /\ sent' = [sent EXCEPT ![c] = <<>>]
  /\ slept' = [slept EXCEPT ![c] = <<>>]
  /\ entry' = [entry EXCEPT ![c] = HTTPClient]
  /\ UNCHANGED <<configured, clientVars>>

\* lines 87-99: one iteration of the retry loop, then the next test of the
\* loop condition
Attempt(c, O) ==
  /\ ~Crashed
  /\ pc[c] = "loop"
  /\ \E do \in O, drained \in BOOLEAN :
       LET res == sendRequest(do)
           new == AssignResults(ret[c], res)
           retry == RetryRequired(new.statusCode, new.err)
           att == [do |-> do, timeout |-> HTTPClient.Timeout, payload |-> req[c].Body]
       IN
         \* a request that was answered has been written, body included
         /\ (do.kind \in {"response", "readfail"} \/ req[c].Body = NoBytes) => drained
         /\ sent' = [sent EXCEPT ![c] = Append(@, att)]
         /\ req' = [req EXCEPT ![c].Body = IF drained THEN NoBytes ELSE @]
         /\ IF res.panics
              THEN /\ pc' = [pc EXCEPT ![c] = "panic"]
                   /\ UNCHANGED <<ret, slept, baseBackOffTime, requestCount>>
              ELSE /\ ret' = [ret EXCEPT ![c] = new]
                   /\ slept' = [slept EXCEPT ![c] =
                                  IF retry THEN Append(@, baseBackOffTime[c]) ELSE @]
                   /\ baseBackOffTime' = [baseBackOffTime EXCEPT ![c] =
                                            IF retry THEN NextBackOff(@) ELSE @]
                   /\ requestCount' = [requestCount EXCEPT ![c] =
                                         IF retry THEN @ + 1 ELSE @]
                   /\ pc' = [pc EXCEPT ![c] =
                               IF retry /\ LoopCondition(requestCount[c] + 1, specs[c].RetryCount)
                                 THEN "loop" ELSE "done"]
  /\ UNCHANGED <<HTTPClient, configured, given, specs, entry, clientVars>>

\* line 99: the named results go to the caller and the frame is gone
Return(c) ==
  /\ ~Crashed
  /\ pc[c] = "done"
  /\ pc' = [pc EXCEPT ![c] = "idle"]
  /\ given' = [given EXCEPT ![c] = NoSpecs]
  /\ specs' = [specs EXCEPT ![c] = NoSpecs]
  /\ req' = [req EXCEPT ![c] = NoRequest]
  /\ requestCount' = [requestCount EXCEPT ![c] = 1]
  /\ baseBackOffTime' = [baseBackOffTime EXCEPT ![c] = baseBackOff]
  /\ ret' = [ret EXCEPT ![c] = NoResult]
  /\ sent' = [sent EXCEPT ![c] = <<>>]
  /\ slept' = [slept EXCEPT ![c] = <<>>]
  /\ entry' = [entry EXCEPT ![c] = NilClient]
  /\ UNCHANGED <<HTTPClient, configured, clientVars>>

\* one caller, one dispatch after another
Next ==
  \/ MakeRequest("a", RequestSpecifications)
  \/ Attempt("a", Outcomes)
  \/ Return("a")

Spec == Init /\ [][Next]_vars

\* the callers dispatch concurrently on the shared handler
NextConc ==
  \E c \in Callers :
    \/ MakeRequest(c, ConcSpecifications)
    \/ Attempt(c, ConcOutcomes)
    \/ Return(c)

SpecConc == Init /\ [][NextConc]_vars

\* MakeRequest is straight-line code on a goroutine that is scheduled: a
\* dispatch that can take its next iteration or return does so
SpecLive == Init /\ [][Next]_vars /\ WF_vars(Attempt("a", Outcomes)) /\ WF_vars(Return("a"))

\* ------------------------------------------ the resource client: actions

ClientCrashed == accountClient.state = "panic"

DoNewClient ==
  /\ accountClient.state = "none"
  /\ call.op = "none"
  /\ \E options \in ClientOptions :
       /\ accountClient' = NewClient(options)
       /\ call' = [NoCall EXCEPT !.op = "NewClient", !.options = options]
  /\ UNCHANGED dispatcherVars

\* what a call of the client leaves: its arguments, the specification it
\* handed to the handler, the result it got back and what it returns
Answer(op, accountID, version, params, r, f) ==
  [NoCall EXCEPT !.op = op, !.accountID = accountID, !.version = version,
                 !.params = params, !.called = f.called,
                 !.classified = f.classified, !.specs = f.specs,
                 !.result = IF f.called THEN r ELSE NoHandlerResult,
                 !.accountData = f.accountData, !.err = f.err]

DoFetch ==
  /\ accountClient.state = "ready"
  /\ call.op = "none"
  /\ \E accountID \in AccountIDs, r \in HandlerResults :
       call' = Answer("Fetch", accountID, NilVersion, [ID |-> ""], r, Fetch(accountID, r))
  /\ UNCHANGED <<dispatcherVars, accountClient>>

DoCreate ==
  /\ accountClient.state = "ready"
  /\ call.op = "none"
  /\ \E createParams \in AccountCreateParams, r \in HandlerResults :
       call' = Answer("Create", "", NilVersion, createParams, r, Create(createParams, r))
  /\ UNCHANGED <<dispatcherVars, accountClient>>

DoDelete ==
  /\ accountClient.state = "ready"
  /\ call.op = "none"
  /\ \E accountID \in AccountIDs, version \in Versions, r \in HandlerResults :
       call' = Answer("Delete", accountID, version, [ID |-> ""], r, Delete(accountID, version, r))
  /\ UNCHANGED <<dispatcherVars, accountClient>>

\* a direct call of the exported classifier
DoHandleErrorStatusCode ==
  /\ ~ClientCrashed
  /\ call.op = "none"
  /\ \E statusCode \in StatusCodes, response \in Bodies :
       call' = [NoCall EXCEPT !.op = "HandleErrorStatusCode", !.statusCode = statusCode,
                              !.response = response, !.classified = TRUE,
                              !.err = HandleErrorStatusCode(statusCode, response)]
  /\ UNCHANGED <<dispatcherVars, accountClient>>

\* checkRetryRequired and the condition of line 90 on a status and an error
DoCheckRetryRequired ==
  /\ ~ClientCrashed
  /\ call.op = "none"
  /\ \E statusCode \in StatusCodes, err \in {Nil, ErrSend, ErrTimeout} :
       call' = [NoCall EXCEPT !.op = "checkRetryRequired", !.statusCode = statusCode,
                              !.sendErr = err,
                              !.retry = checkRetryRequired(statusCode),
                              !.decide = RetryRequired(statusCode, err)]
  /\ UNCHANGED <<dispatcherVars, accountClient>>

\* the caller has what the call returned
DoReturn ==
  /\ ~ClientCrashed
  /\ call.op # "none"
  /\ call' = NoCall
  /\ UNCHANGED <<dispatcherVars, accountClient>>

NextClient ==
  \/ DoNewClient
  \/ DoFetch
  \/ DoCreate
  \/ DoDelete
  \/ DoHandleErrorStatusCode
  \/ DoCheckRetryRequired
  \/ DoReturn

SpecClient == Init /\ [][NextClient]_vars

\* ----------------------------------------------------------------- claims

\* the retry count the contract speaks of: retryCount, with 0 read as 3
Attempts(c) == IF given[c].RetryCount = 0 THEN 3 ELSE given[c].RetryCount

\* the transient status codes of the contract
TransientStatus == {408, 503, 504}

\* the build phase of the call succeeds
Built(c) == given[c].HTTPMethod \in TokenMethods /\ given[c].URL = GoodURL

IsResponse(att, status) == att.do.kind = "response" /\ att.do.status = status

Last(c) == sent[c][Len(sent[c])]

\* C1: a dispatch with retryCount N >= 1 (0 counting as 3) whose every
\* attempt returns status 503 sends exactly N requests and returns 503.
C1_AllUnavailableExhausts ==
  \A c \in Callers :
    ( /\ pc[c] = "done"
      /\ Built(c)
      /\ given[c].RetryCount >= 0
      /\ \A i \in DOMAIN sent[c] : IsResponse(sent[c][i], 503) )
    => /\ Len(sent[c]) = Attempts(c)
       /\ ret[c].statusCode = 503

C1_Witness ==
  \E c \in Callers :
    /\ pc[c] = "done"
    /\ given[c].RetryCount = 0
    /\ Len(sent[c]) = 3
    /\ \A i \in DOMAIN sent[c] : IsResponse(sent[c][i], 503)
    /\ ret[c].statusCode = 503

\* C2: 503 on attempt 1 and 200 on attempt 2 returns 200 with a nil error
\* after exactly 2 requests; no attempt follows the first response that is
\* error-free and not transient.
C2_StopsAtFirstSuccess ==
  \A c \in Callers :
    /\ \A i \in DOMAIN sent[c] :
         (sent[c][i].do.kind = "response" /\ sent[c][i].do.status \notin TransientStatus)
         => (i = Len(sent[c]) /\ pc[c] = "done")
    /\ ( /\ Len(sent[c]) >= 2
         /\ IsResponse(sent[c][1], 503)
         /\ IsResponse(sent[c][2], 200) )
       => /\ pc[c] = "done"
          /\ Len(sent[c]) = 2
          /\ ret[c].statusCode = 200
          /\ ret[c].err = Nil

C2_Witness ==
  \E c \in Callers :
    /\ pc[c] = "done"
    /\ given[c].RetryCount \in {0, 3}
    /\ Len(sent[c]) = 2
    /\ IsResponse(sent[c][1], 503)
    /\ IsResponse(sent[c][2], 200)
    /\ ret[c].statusCode = 200

\* C3: a first attempt answered with a status outside {408, 503, 504} is
\* the only request: no backoff sleep, and the status and the body of the
\* response are returned unchanged with a nil error.
C3_NonTransientReturnsAtOnce ==
  \A c \in Callers :
    ( /\ Len(sent[c]) >= 1
      /\ sent[c][1].do.kind = "response"
      /\ sent[c][1].do.status \notin TransientStatus )
    => /\ pc[c] = "done"
       /\ Len(sent[c]) = 1
       /\ slept[c] = <<>>
       /\ ret[c].statusCode = sent[c][1].do.status
       /\ ret[c].body = sent[c][1].do.body
       /\ ret[c].err = Nil

C3_Witness ==
  \E c \in Callers :
    /\ pc[c] = "done"
    /\ given[c].RetryCount = 2
    /\ Len(sent[c]) = 1
    /\ IsResponse(sent[c][1], 409)
    /\ ret[c].statusCode = 409
    /\ ret[c].body = <<9>>

\* C4: a dispatch whose method or URL is invalid fails with the build
\* error: no request, no sleep, the client timeout and the retryCount of
\* the specification as they were.
C4_BuildErrorChangesNothing ==
  \A c \in Callers :
    (pc[c] = "done" /\ ~Built(c))
    => /\ ret[c].err = "unable to create http request"
       /\ sent[c] = <<>>
       /\ slept[c] = <<>>
       /\ HTTPClient = entry[c]
       /\ specs[c] = given[c]

C4_Witness ==
  \E c \in Callers :
    /\ pc[c] = "done"
    /\ given[c].HTTPMethod = "*?"
    /\ given[c].Timeout # 0
    /\ given[c].Timeout # HTTPClient.Timeout
    /\ given[c].RetryCount = 0
    /\ ret[c].err = "unable to create http request"

\* C5: the results returned are those of the last attempt sent, whatever
\* the earlier attempts produced.
C5_LastAttemptOnly ==
  \A c \in Callers :
    (pc[c] = "done" /\ Len(sent[c]) >= 1)
    => LET last == sendRequest(Last(c).do)
       IN /\ ret[c].statusCode = last.statusCode
          /\ ret[c].body = last.body
          /\ ret[c].headers = last.headers
          /\ ret[c].err = last.err

\* a transport error on attempt 1, then a response that ends the dispatch
C5_Witness ==
  \E c \in Callers :
    /\ pc[c] = "done"
    /\ Len(sent[c]) = 2
    /\ sent[c][1].do.kind = "neterr"
    /\ IsResponse(sent[c][2], 200)
    /\ ret[c].err = Nil
    /\ ret[c].headers = H1

\* C6: a dispatch that builds, whatever its retryCount, sends at least one
\* request and returns the results of an attempt made; it never returns
\* status 0 with a nil error and no request sent.
C6_BuiltDispatchSends ==
  \A c \in Callers :
    (pc[c] = "done" /\ Built(c))
    => /\ ~(ret[c].statusCode = 0 /\ ret[c].err = Nil /\ sent[c] = <<>>)
       /\ Len(sent[c]) >= 1
       /\ ret[c].statusCode = sendRequest(Last(c).do).statusCode
       /\ ret[c].err = sendRequest(Last(c).do).err

\* C7: a transport timeout is status 408 with the error "timeout
\* encountered", any other transport failure status 0 with "failed to send
\* request"; both are retried while attempts remain, and a dispatch whose
\* attempts all fail this way returns the status and error of the last.
C7_TransportErrorsRetried ==
  \A c \in Callers :
    \A i \in DOMAIN sent[c] :
      sent[c][i].do.kind \in {"timeout", "neterr"}
      => /\ i < Attempts(c) => (i < Len(sent[c]) \/ pc[c] = "loop")
         /\ (i = Len(sent[c]) /\ i = Attempts(c))
            => /\ pc[c] = "done"
               /\ ret[c].body = <<>>
               /\ ret[c].headers = {}
               /\ sent[c][i].do.kind = "timeout"
                  => (ret[c].statusCode = 408 /\ ret[c].err = "timeout encountered")
               /\ sent[c][i].do.kind = "neterr"
                  => (ret[c].statusCode = 0 /\ ret[c].err = "failed to send request")

\* every attempt of an exhausted dispatch fails in transport, the last by
\* timeout
C7_Witness ==
  \E c \in Callers :
    /\ pc[c] = "done"
    /\ given[c].RetryCount = 0
    /\ Len(sent[c]) = 3
    /\ sent[c][1].do.kind = "neterr"
    /\ sent[c][2].do.kind = "neterr"
    /\ sent[c][3].do.kind = "timeout"
    /\ ret[c].statusCode = 408
    /\ ret[c].err = "timeout encountered"

\* C8: a response whose body cannot be read yields the status received, an
\* empty body, no headers and a non-nil error, returned as a value; the
\* caller is not crashed.
C8_ReadFailureIsAnError ==
  \A c \in Callers :
    (Len(sent[c]) >= 1 /\ Last(c).do.kind = "readfail")
    => /\ pc[c] # "panic"
       /\ ret[c].statusCode = Last(c).do.status
       /\ ret[c].body = <<>>
       /\ ret[c].headers = {}
       /\ ret[c].err # Nil

\* C9: a dispatch with timeoutSeconds = 0 sends its attempts under the
\* timeout the dispatcher was constructed with, whatever timeoutSeconds the
\* dispatches that returned before it had.
C9_TimeoutForThatDispatchOnly ==
  \A c \in Callers :
    given[c].Timeout = 0
    => \A i \in DOMAIN sent[c] : sent[c][i].timeout = configured.Timeout

\* the timeout a call asks for
OwnTimeout(c) ==
  IF given[c].Timeout # 0 THEN given[c].Timeout ELSE configured.Timeout

\* C10: with concurrent dispatches on one dispatcher, every attempt of a
\* call is sent under that call's own timeout.
C10_OwnTimeoutUnderConcurrency ==
  \A c \in Callers :
    \A i \in DOMAIN sent[c] : sent[c][i].timeout = OwnTimeout(c)

\* 2^n
RECURSIVE Pow2(_)
Pow2(n) == IF n = 0 THEN 1 ELSE 2 * Pow2(n - 1)

\* C11: in every dispatch, whatever came before it on the dispatcher, the
\* k-th backoff sleep lasts 100ms * 2^(k-1).
C11_BackoffDoubles ==
  \A c \in Callers :
    \A k \in DOMAIN slept[c] : slept[c][k] = 100 * Pow2(k - 1)

\* three sleeps of a dispatch that follows one which changed the client
C11_Witness ==
  \E c \in Callers :
    /\ given[c].Timeout = 0
    /\ HTTPClient.Timeout # configured.Timeout
    /\ slept[c] = <<100, 200, 400>>

\* C12: after a dispatch every field of the caller's specification has the
\* value it had before the call.
C12_SpecificationUnchanged ==
  \A c \in Callers : pc[c] = "done" => specs[c] = given[c]

\* the request as prepareRequest left it, before any attempt
Prepared(c) == Built(c) /\ pc[c] \in {"loop", "done"} /\ sent[c] = <<>>

\* the methods that carry a body to the server
MutatingMethods == {"POST", "PUT"}

\* C13 as claimed: header and body exactly for a mutating method with a
\* non-empty body.
C13_BodyForMutatingNonEmpty ==
  \A c \in Callers :
    Prepared(c)
    => IF given[c].HTTPMethod \in MutatingMethods /\ given[c].Params # <<>>
         THEN req[c].ContentType = "application/json" /\ req[c].Body = given[c].Params
         ELSE req[c].ContentType = Nil /\ req[c].Body = <<>>

\* C13 amended: header and body exactly for POST, whether or not the body is
\* empty; any other method gets neither.
C13_BodyForPost ==
  \A c \in Callers :
    /\ Prepared(c)
       => IF given[c].HTTPMethod = "POST"
            THEN req[c].ContentType = "application/json" /\ req[c].Body = given[c].Params
            ELSE req[c].ContentType = Nil /\ req[c].Body = <<>>
    /\ (Built(c) /\ pc[c] # "idle")
       => (req[c].ContentType = "application/json" <=> given[c].HTTPMethod = "POST")

\* a POST with an empty body carries the header
C13_Witness ==
  \E c \in Callers :
    /\ Prepared(c)
    /\ given[c].HTTPMethod = "POST"
    /\ given[c].Params = <<>>
    /\ req[c].ContentType = "application/json"

\* ------------------------------------------- claims on the resource client

\* the status each operation takes for success
Expected(op) ==
  CASE op = "Fetch" -> 200
    [] op = "Create" -> 201
    [] op = "Delete" -> 204

\* the call reached the handler and the handler returned no error
Answered == call.op \in {"Fetch", "Create", "Delete"} /\ call.called /\ call.result.err = NilError

\* bodies that are not a JSON document
Unparsable == {NilBody, "", DocTruncated}

\* messages a status-classified error can carry
ClassifiedMessages == { ErrorMap[code] : code \in DOMAIN ErrorMap } \cup {"internal error"}

\* C14: HandleErrorStatusCode is total: for a status code of the known table
\* it returns a non-nil error "<mapped category>: <body text>", for every other
\* code (0, 506, 510, ...) a non-nil error "internal error: <body text>".
C14_ClassifierTotal ==
  call.op = "HandleErrorStatusCode"
  => /\ call.err # NilError
     /\ call.err.text = (IF call.response = NilBody THEN "" ELSE call.response)
     /\ call.statusCode \in DOMAIN ErrorMap => call.err.msg = ErrorMap[call.statusCode]
     /\ call.statusCode \notin DOMAIN ErrorMap => call.err.msg = "internal error"
     /\ call.statusCode = 503 => call.err.msg = "service unavailable"
     /\ call.statusCode = 504 => call.err.msg = "gateway timeout"
     /\ call.statusCode \in {0, 506, 510} => call.err.msg = "internal error"

\* an unmapped code with a body is classified as an internal error
C14_Witness ==
  /\ call.op = "HandleErrorStatusCode"
  /\ call.statusCode = 510
  /\ call.response = DocAccount
  /\ call.err = Errorf("internal error", DocAccount)

\* C15: with a nil handler error, Fetch succeeds only on 200, Create only on
\* 201, Delete only on 204; on any other status the operation returns a nil
\* account and the classifier's error for that status and body.
C15_SuccessStatusOnly ==
  Answered
  => /\ call.err = NilError => call.result.statusCode = Expected(call.op)
     /\ call.result.statusCode # Expected(call.op)
        => /\ call.accountData = NoAccount
           /\ call.err = HandleErrorStatusCode(call.result.statusCode, call.result.body)
           /\ call.err # NilError
           /\ call.result.statusCode = 404 => call.err.msg = "resource not found"
           /\ call.result.statusCode = 409 => call.err.msg = "request conflict"

\* Create answered with 200, not 201: a classified error and no account
C15_Witness ==
  /\ Answered
  /\ call.op = "Create"
  /\ call.result.statusCode = 200
  /\ call.accountData = NoAccount
  /\ call.err.msg = "internal error"

\* C16: Fetch with an empty account id, Delete with an empty account id and
\* Delete with a nil version each return an error ("invalid account id" /
\* "invalid version") and the handler is not called.
C16_InvalidArgumentsSendNothing ==
  /\ (call.op \in {"Fetch", "Delete"} /\ call.accountID = "")
     => /\ ~call.called
        /\ call.err = Errorf("invalid account id", "")
        /\ call.accountData = NoAccount
  /\ (call.op = "Delete" /\ call.version.nil)
     => /\ ~call.called
        /\ call.err.msg \in {"invalid account id", "invalid version"}
        /\ call.accountID # "" => call.err = Errorf("invalid version", "")

\* Delete of a well-formed id with a nil version
C16_Witness ==
  /\ call.op = "Delete"
  /\ call.accountID = "7eb3"
  /\ call.version.nil
  /\ ~call.called
  /\ call.err.msg = "invalid version"

\* C17: the expected success status (200 for Fetch, 201 for Create) with a
\* body that fails to parse gives a nil account and a decode error that is not
\* a status-classified one: "received invalid response" for Fetch, "resource
\* created, but received invalid response" for Create.
C17_DecodeErrorDistinct ==
  (/\ Answered
   /\ call.op \in {"Fetch", "Create"}
   /\ call.result.statusCode = Expected(call.op)
   /\ call.result.body \in Unparsable)
  => /\ call.accountData = NoAccount
     /\ call.err # NilError
     /\ call.err.msg = (IF call.op = "Fetch"
                          THEN "received invalid response"
                          ELSE "resource created, but received invalid response")
     /\ call.err.msg \notin ClassifiedMessages

\* Create answered 201 with a truncated document
C17_Witness ==
  /\ Answered
  /\ call.op = "Create"
  /\ call.result.statusCode = 201
  /\ call.result.body = DocTruncated
  /\ call.err.msg = "resource created, but received invalid response"

\* C18: NewClient with nil options returns a usable client backed by a default
\* handler, as NewClient with options whose HTTPClient is nil does; it does not
\* crash the caller.
C18_NilOptionsGiveDefaultClient ==
  (call.op = "NewClient" /\ call.options.nil)
  => /\ accountClient.state = "ready"
     /\ accountClient.handler = NewClient([nil |-> FALSE, HTTPClient |-> NilClient]).handler

\* C19: construction with a caller's HTTP client keeps that client with its
\* timeout and merges in no default; construction with none builds a client
\* with the default transport and a timeout of 5 seconds.
C19_ConstructionVerbatim ==
  (call.op = "NewClient" /\ ~call.options.nil)
  => /\ accountClient.state = "ready"
     /\ call.options.HTTPClient # NilClient
        => accountClient.handler = call.options.HTTPClient
     /\ call.options.HTTPClient = NilClient
        => accountClient.handler = [Timeout |-> 5, Transport |-> "defaultTransport"]

\* a caller's client without a transport is kept as it is
C19_Witness ==
  /\ call.op = "NewClient"
  /\ ~call.options.nil
  /\ call.options.HTTPClient = [Timeout |-> 10, Transport |-> Nil]
  /\ accountClient.handler = [Timeout |-> 10, Transport |-> Nil]

\* C20: the retry decision after an attempt is true exactly when the status is
\* 408, 503 or 504 or the attempt gave an error; checkRetryRequired(code) is
\* true exactly for 408, 503 and 504.
C20_RetryDecision ==
  call.op = "checkRetryRequired"
  => /\ call.retry <=> call.statusCode \in {408, 503, 504}
     /\ call.decide <=> (call.statusCode \in {408, 503, 504} \/ call.sendErr # Nil)
     /\ call.statusCode = 409 => ~call.retry

\* a conflict is not retryable by its status, an error with it is retried
C20_Witness ==
  /\ call.op = "checkRetryRequired"
  /\ call.statusCode = 409
  /\ call.sendErr = ErrSend
  /\ ~call.retry
  /\ call.decide

\* ------------------------------------------- claims on sleeps and termination

\* C21: a backoff sleep is only inserted between two attempts: every sleep is
\* followed by another request, so a dispatch that has returned after n
\* requests has slept at most n - 1 times, and never after its final attempt.
C21_SleepOnlyBetweenAttempts ==
  \A c \in Callers :
    /\ Len(slept[c]) <= Len(sent[c])
    /\ (pc[c] = "done" /\ Len(sent[c]) >= 1) => Len(slept[c]) <= Len(sent[c]) - 1

\* C22: every dispatch terminates for every sequence of attempt outcomes: it
\* sends at most N requests, N the retry count (3 when it is 0), and then
\* returns its result.
C22_DispatchTerminates ==
  /\ [](\A c \in Callers :
          (pc[c] # "idle" /\ given[c].RetryCount >= 0) => Len(sent[c]) <= Attempts(c))
  /\ \A c \in Callers : (pc[c] = "loop") ~> (pc[c] = "done")

\* ---------------------------------- claims on the client's error handling

\* C23: when the handler returns a non-nil error, Fetch, Create and Delete
\* return that same error with a nil account and do not call the classifier;
\* the classifier is called only when the handler's error is nil and the
\* status is not the expected one, so retries exhausted on 503 come out as
\* "service unavailable".
C23_HandlerErrorPassedOn ==
  (call.op \in {"Fetch", "Create", "Delete"})
  => /\ (call.called /\ call.result.err # NilError)
        => /\ call.err = call.result.err
           /\ call.accountData = NoAccount
           /\ ~call.classified
     /\ call.classified
        => /\ call.called
           /\ call.result.err = NilError
           /\ call.result.statusCode # Expected(call.op)
     /\ (Answered /\ call.result.statusCode = 503)
        => call.classified /\ call.err.msg = "service unavailable"

\* a timeout after exhausted retries comes back from Fetch as it is
C23_Witness ==
  /\ call.op = "Fetch"
  /\ call.called
  /\ call.result.statusCode = 408
  /\ call.result.err = Errorf(ErrTimeout, "deadline exceeded")
  /\ call.err = Errorf(ErrTimeout, "deadline exceeded")
  /\ ~call.classified

\* ------------------------------------------ claims on the prepared request

\* C24 as claimed: prepareRequest with Timeout = T # 0 sets the timeout of the
\* handler's HTTP client to T seconds, with Timeout = 0 it leaves the timeout
\* as it was.
C24_TimeoutSet ==
  \A c \in Callers :
    pc[c] # "idle"
    => HTTPClient.Timeout =
         (IF given[c].Timeout # 0 THEN given[c].Timeout ELSE entry[c].Timeout)

\* C24 amended: that holds when the request can be built; when it cannot,
\* the timeout stays as it was whatever T is.  The transport is never touched.
C24_TimeoutSetWhenBuilt ==
  \A c \in Callers :
    pc[c] # "idle"
    => /\ HTTPClient.Timeout =
            (IF Built(c) /\ given[c].Timeout # 0
               THEN given[c].Timeout ELSE entry[c].Timeout)
       /\ HTTPClient.Transport = entry[c].Transport

\* a built request with a timeout of 2 s on a client that had 10 s
C24_Witness ==
  \E c \in Callers :
    /\ Prepared(c)
    /\ given[c].Timeout = 2
    /\ entry[c].Timeout = 10
    /\ HTTPClient.Timeout = 2

\* C25: for a POST dispatch with a non-empty body every attempt sends the
\* same payload bytes: each retried attempt carries the full body of the
\* specification, not an empty or partly consumed one.
C25_SamePayloadEveryAttempt ==
  \A c \in Callers :
    (Built(c) /\ given[c].HTTPMethod = "POST" /\ given[c].Params # NoBytes)
    => \A i \in 1 .. Len(sent[c]) : sent[c][i].payload = given[c].Params

\* C26: Fetch and Create never return a nil account together with a nil
\* error: for every result of the handler either an account or a non-nil
\* error comes back, also when the status is the expected one (200 / 201) and
\* the body is a JSON document without a "data" key.
C26_AccountOrError ==
  call.op \in {"Fetch", "Create"}
  => ~(call.accountData = NoAccount /\ call.err = NilError)

====
